---------------------------- MODULE Spec2Model ----------------------------
(***************************************************************************)
(* The AutoGPTNotion plugin (src/src/notion/__init__.py) as a state        *)
(* machine.  The state is the plugin object, the process environment it    *)
(* was configured from, the host's prompt-builder objects and the record   *)
(* of the call the host made last.  One action per method of the class.    *)
(***************************************************************************)
EXTENDS Integers, Sequences, FiniteSets, TLC

VARIABLES
    self,           \* the plugin object's fields, as set by __init__
    environ,        \* os.environ: the variables that are set, with their values
    notionExports,  \* the names the sibling module .notion lets one import
    hostRejects,    \* the command name the host's add_command raises on, or NoName
    prompts,        \* the host's prompt-builder objects, by identity
    nPostPrompt,    \* number of post_prompt calls made so far
    nHostCommands,  \* number of commands the host registered itself
    pending,        \* the lifecycle event the host is at, and the predicate's answer
    last            \* the call made by the last step: hook, arguments, outcome

vars == <<self, environ, notionExports, hostRejects, prompts, nPostPrompt,
          nHostCommands, pending, last>>

---------------------------------------------------------------------------
(* Bounds of the model. *)

MaxPostPrompt == 2
MaxHostCommands == 1

---------------------------------------------------------------------------
(* Python values. *)

None == [type |-> "NoneType"]
Str(s) == [type |-> "str", s |-> s]
Bool(b) == [type |-> "bool", b |-> b]
Ref(p) == [type |-> "PromptGenerator", id |-> p]
EmptyDict == [k \in {} |-> ""]

NoError == "none"
NoName == "none"

PromptIds == {"p1", "p2"}

Environments ==
    { EmptyDict,
      [NOTION_TOKEN |-> "secret_a", NOTION_DATABASE_ID |-> "db_a"] }

os_getenv(key) == IF key \in DOMAIN environ THEN Str(environ[key]) ELSE None

Client(auth) == [auth |-> auth]

---------------------------------------------------------------------------
(* The plugin's construction. *)

__init__ ==
    [ _name |-> "autogpt-notion",
      _version |-> "0.1.0",
      _description |-> "Notion API integrations using notion-sdk-py",
      notion_token |-> os_getenv("NOTION_TOKEN"),
      database_id |-> os_getenv("NOTION_DATABASE_ID"),
      notion |-> Client(os_getenv("NOTION_TOKEN")) ]

---------------------------------------------------------------------------
(* The outcome of a method call: the value returned (NoReturn when the     *)
(* call raised), the exception that left it, and the prompt-builders and   *)
(* the plugin object as the call leaves them.                              *)

NoReturn == [type |-> "no return"]

Returns(value) ==
    [ret |-> value, raised |-> NoError, prompts |-> prompts, self |-> self]

---------------------------------------------------------------------------
(* post_prompt. *)

\* from .notion import (append_page, create_page, get_all_pages,
\*                      retrieve_page, update_page_properties)
ImportNames ==
    {"append_page", "create_page", "get_all_pages", "retrieve_page",
     "update_page_properties"}

\* Mutant of import_notion: the import is taken to succeed always.
import_notion_unchecked == NoError

\* The import statement raises ImportError unless the module offers every name.
import_notion ==
    IF ImportNames \subseteq notionExports THEN NoError ELSE "ImportError"

\* Mutant of Registrations: append_page and retrieve_page are bound to the
\* wrong names.
Registrations_swapped ==
    << [ name |-> "notion_create_page",
         description |-> "Create a new Notion page",
         args |-> [ title |-> "<title>", summary |-> "<summary>",
                    tags |-> "<list_of_tags>", content |-> "<content>" ],
         function |-> "create_page" ],
       [ name |-> "notion_get_all_pages",
         description |-> "Retrieves all pages properties from a database",
         args |-> EmptyDict,
         function |-> "get_all_pages" ],
       [ name |-> "notion_append_page",
         description |-> "Append page content by id",
         args |-> [ page_id |-> "<page_id>", content |-> "<content>" ],
         function |-> "retrieve_page" ],
       [ name |-> "notion_retrieve_page",
         description |-> "Retrieves a page's properties and content by id",
         args |-> [ page_id |-> "<page_id>" ],
         function |-> "append_page" ],
       [ name |-> "notion_update_page_properties",
         description |-> "Update a page's properties by id",
         args |-> [ page_id |-> "<page_id>", title |-> "<title>",
                    summary |-> "<summary>", tags |-> "<list_of_tags>" ],
         function |-> "update_page_properties" ] >>

\* The arguments of the five prompt.add_command calls, in program order.
Registrations ==
    << [ name |-> "notion_create_page",
         description |-> "Create a new Notion page",
         args |-> [ title |-> "<title>", summary |-> "<summary>",
                    tags |-> "<list_of_tags>", content |-> "<content>" ],
         function |-> "create_page" ],
       [ name |-> "notion_get_all_pages",
         description |-> "Retrieves all pages properties from a database",
         args |-> EmptyDict,
         function |-> "get_all_pages" ],
       [ name |-> "notion_append_page",
         description |-> "Append page content by id",
         args |-> [ page_id |-> "<page_id>", content |-> "<content>" ],
         function |-> "append_page" ],
       [ name |-> "notion_retrieve_page",
         description |-> "Retrieves a page's properties and content by id",
         args |-> [ page_id |-> "<page_id>" ],
         function |-> "retrieve_page" ],
       [ name |-> "notion_update_page_properties",
         description |-> "Update a page's properties by id",
         args |-> [ page_id |-> "<page_id>", title |-> "<title>",
                    summary |-> "<summary>", tags |-> "<list_of_tags>" ],
         function |-> "update_page_properties" ] >>

\* The host's PromptGenerator.add_command: it appends the command to the
\* prompt-builder's command list, or raises (a host that refuses a name)
\* and leaves the list as it was.
add_command(commands, registration) ==
    IF hostRejects = registration.name
    THEN [commands |-> commands, raised |-> "HostError"]
    ELSE [commands |-> Append(commands, registration), raised |-> NoError]

\* Mutant of AddCommands: an exception of add_command is swallowed and the
\* remaining registrations are made.
RECURSIVE AddCommands_continue(_, _)
AddCommands_continue(commands, i) ==
    IF i > Len(Registrations)
    THEN [commands |-> commands, raised |-> NoError]
    ELSE AddCommands_continue(add_command(commands, Registrations[i]).commands, i + 1)

\* The add_command calls from the i-th on: an exception ends the sequence.
RECURSIVE AddCommands(_, _)
AddCommands(commands, i) ==
    IF i > Len(Registrations)
    THEN [commands |-> commands, raised |-> NoError]
    ELSE LET r == add_command(commands, Registrations[i])
         IN  IF r.raised # NoError THEN r ELSE AddCommands(r.commands, i + 1)

\* Mutant of post_prompt: the final "return prompt" is missing.
post_prompt_no_return(prompt) ==
    IF import_notion # NoError
    THEN [ret |-> NoReturn, raised |-> import_notion,
          prompts |-> prompts, self |-> self]
    ELSE LET r == AddCommands(prompts[prompt].commands, 1)
             after == [prompts EXCEPT ![prompt].commands = r.commands]
         IN  IF r.raised # NoError
             THEN [ret |-> NoReturn, raised |-> r.raised,
                   prompts |-> after, self |-> self]
             ELSE [ret |-> None, raised |-> NoError,
                   prompts |-> after, self |-> self]

\* Mutant of post_prompt: the prompt's command list is rebuilt from nothing.
post_prompt_fresh(prompt) ==
    IF import_notion # NoError
    THEN [ret |-> NoReturn, raised |-> import_notion,
          prompts |-> prompts, self |-> self]
    ELSE LET r == AddCommands(<< >>, 1)
             after == [prompts EXCEPT ![prompt].commands = r.commands]
         IN  IF r.raised # NoError
             THEN [ret |-> NoReturn, raised |-> r.raised,
                   prompts |-> after, self |-> self]
             ELSE [ret |-> Ref(prompt), raised |-> NoError,
                   prompts |-> after, self |-> self]

post_prompt(prompt) ==
    IF import_notion # NoError
    THEN [ret |-> NoReturn, raised |-> import_notion,
          prompts |-> prompts, self |-> self]
    ELSE LET r == AddCommands(prompts[prompt].commands, 1)
             after == [prompts EXCEPT ![prompt].commands = r.commands]
         IN  IF r.raised # NoError
             THEN [ret |-> NoReturn, raised |-> r.raised,
                   prompts |-> after, self |-> self]
             ELSE [ret |-> Ref(prompt), raised |-> NoError,
                   prompts |-> after, self |-> self]

---------------------------------------------------------------------------
(* The capability predicates. *)

\* Mutants: a predicate that answers True.
can_handle_pre_command_yes == TRUE
can_handle_user_input_yes(input) == TRUE

can_handle_on_response == FALSE
can_handle_post_prompt == TRUE
can_handle_on_planning == FALSE
can_handle_post_planning == FALSE
can_handle_pre_instruction == FALSE
can_handle_on_instruction == FALSE
can_handle_post_instruction == FALSE
can_handle_pre_command == FALSE
can_handle_post_command == FALSE
can_handle_chat_completion(messages, model, temperature, max_tokens) == FALSE
can_handle_text_embedding(text) == FALSE
can_handle_user_input(input) == FALSE
can_handle_report == FALSE

---------------------------------------------------------------------------
(* The handlers other than post_prompt: every body is "pass", which        *)
(* returns None, except user_input's.                                      *)

\* Mutant of on_planning: it registers a command on the prompt it is given.
on_planning_registers(prompt, messages) ==
    [ Returns(None) EXCEPT
        !.prompts = [prompts EXCEPT ![prompt.id].commands =
                        Append(@, Registrations[1])] ]

\* Mutant of user_input: the body is "pass", as in the other handlers.
user_input_pass(input) == Returns(None)

\* Mutant of user_input: the configuration is read again at each call.
user_input_reread(input) == [ Returns(input) EXCEPT !.self = __init__ ]

on_response(response) == Returns(None)
on_planning(prompt, messages) == Returns(None)
post_planning(response) == Returns(None)
pre_instruction(messages) == Returns(None)
on_instruction(messages) == Returns(None)
post_instruction(response) == Returns(None)
pre_command(command_name, arguments) == Returns(None)
post_command(command_name, response) == Returns(None)
handle_chat_completion(messages, model, temperature, max_tokens) == Returns(None)
handle_text_embedding(text) == Returns(None)
user_input(input) == Returns(input)
report(message) == Returns(None)

---------------------------------------------------------------------------
(* The hooks of the plugin interface and the arguments the host passes.    *)

NoOpHooks ==
    {"on_response", "on_planning", "post_planning", "pre_instruction",
     "on_instruction", "post_instruction", "pre_command", "post_command",
     "handle_chat_completion", "handle_text_embedding", "report"}

Hooks == NoOpHooks \cup {"post_prompt", "user_input"}

List(items) == [type |-> "list", items |-> items]
Dict(items) == [type |-> "dict", items |-> items]
Number(repr) == [type |-> "number", repr |-> repr]

Texts == {Str("hello"), Str("")}
Messages == List(<<[role |-> "user", content |-> "hello"]>>)
Arguments == Dict([page_id |-> "42"])

\* The arguments of handler h.
HandlerArgs(h) ==
    CASE h = "on_response" -> {<<Str("hello")>>}
      [] h = "post_prompt" -> {<<Ref(p)>> : p \in PromptIds}
      [] h = "on_planning" -> {<<Ref(p), Messages>> : p \in PromptIds}
      [] h = "post_planning" -> {<<Str("hello")>>}
      [] h = "pre_instruction" -> {<<Messages>>}
      [] h = "on_instruction" -> {<<Messages>>}
      [] h = "post_instruction" -> {<<Str("hello")>>}
      [] h = "pre_command" -> {<<Str("notion_create_page"), Arguments>>}
      [] h = "post_command" -> {<<Str("notion_create_page"), Str("hello")>>}
      [] h = "handle_chat_completion" ->
             {<<Messages, Str("gpt-4"), Number("0.7"), Number("100")>>}
      [] h = "handle_text_embedding" -> {<<Str("hello")>>}
      [] h = "user_input" -> {<<t>> : t \in Texts}
      [] h = "report" -> {<<Str("hello")>>}

\* The arguments of the capability predicate of hook h.
PredicateArgs(h) ==
    CASE h = "handle_chat_completion" -> HandlerArgs(h)
      [] h = "handle_text_embedding" -> HandlerArgs(h)
      [] h = "user_input" -> HandlerArgs(h)
      [] OTHER -> {<< >>}

\* The name of the capability predicate of hook h.
PredicateName(h) ==
    CASE h = "handle_chat_completion" -> "can_handle_chat_completion"
      [] h = "handle_text_embedding" -> "can_handle_text_embedding"
      [] h = "on_response" -> "can_handle_on_response"
      [] h = "post_prompt" -> "can_handle_post_prompt"
      [] h = "on_planning" -> "can_handle_on_planning"
      [] h = "post_planning" -> "can_handle_post_planning"
      [] h = "pre_instruction" -> "can_handle_pre_instruction"
      [] h = "on_instruction" -> "can_handle_on_instruction"
      [] h = "post_instruction" -> "can_handle_post_instruction"
      [] h = "pre_command" -> "can_handle_pre_command"
      [] h = "post_command" -> "can_handle_post_command"
      [] h = "user_input" -> "can_handle_user_input"
      [] h = "report" -> "can_handle_report"

\* The class's method table: the capability predicate of hook h, called with a.
CanHandle(h, a) ==
    CASE h = "on_response" -> can_handle_on_response
      [] h = "post_prompt" -> can_handle_post_prompt
      [] h = "on_planning" -> can_handle_on_planning
      [] h = "post_planning" -> can_handle_post_planning
      [] h = "pre_instruction" -> can_handle_pre_instruction
      [] h = "on_instruction" -> can_handle_on_instruction
      [] h = "post_instruction" -> can_handle_post_instruction
      [] h = "pre_command" -> can_handle_pre_command
      [] h = "post_command" -> can_handle_post_command
      [] h = "handle_chat_completion" ->
             can_handle_chat_completion(a[1], a[2], a[3], a[4])
      [] h = "handle_text_embedding" -> can_handle_text_embedding(a[1])
      [] h = "user_input" -> can_handle_user_input(a[1])
      [] h = "report" -> can_handle_report

\* The class's method table: the handler of hook h, called with a.
Handler(h, a) ==
    CASE h = "on_response" -> on_response(a[1])
      [] h = "post_prompt" -> post_prompt(a[1].id)
      [] h = "on_planning" -> on_planning(a[1], a[2])
      [] h = "post_planning" -> post_planning(a[1])
      [] h = "pre_instruction" -> pre_instruction(a[1])
      [] h = "on_instruction" -> on_instruction(a[1])
      [] h = "post_instruction" -> post_instruction(a[1])
      [] h = "pre_command" -> pre_command(a[1], a[2])
      [] h = "post_command" -> post_command(a[1], a[2])
      [] h = "handle_chat_completion" ->
             handle_chat_completion(a[1], a[2], a[3], a[4])
      [] h = "handle_text_embedding" -> handle_text_embedding(a[1])
      [] h = "user_input" -> user_input(a[1])
      [] h = "report" -> report(a[1])

---------------------------------------------------------------------------
(* The initial state: the module is loaded and the plugin constructed.     *)

NoEvent == [hook |-> "none", can |-> FALSE]

Idle == [kind |-> "idle", hook |-> "none", args |-> << >>,
         ret |-> NoReturn, raised |-> NoError]

HostCommand ==
    [ name |-> "google", description |-> "Google Search",
      args |-> [ input |-> "<search>" ], function |-> "google_search" ]

NewPrompt(p) ==
    [ commands |-> << >>,
      constraints |-> IF p = "p1" THEN <<"constraint of p1">>
                      ELSE <<"constraint of p2">> ]

Init ==
    /\ environ \in Environments
    /\ self = __init__
    /\ notionExports \in
           { ImportNames, ImportNames \ {"update_page_properties"}, {} }
    /\ hostRejects \in {NoName} \cup {Registrations[i].name : i \in 1..Len(Registrations)}
    /\ prompts = [p \in PromptIds |-> NewPrompt(p)]
    /\ nPostPrompt = 0
    /\ nHostCommands = 0
    /\ pending = NoEvent
    /\ last = Idle

---------------------------------------------------------------------------
(* A call of a method: its outcome becomes the state, and the call is      *)
(* recorded.                                                               *)

Call(kind, name, a, outcome) ==
    /\ prompts' = outcome.prompts
    /\ self' = outcome.self
    /\ last' = [kind |-> kind, hook |-> name, args |-> a,
                ret |-> outcome.ret, raised |-> outcome.raised]
    /\ UNCHANGED <<environ, notionExports, hostRejects, nHostCommands>>

\* The host calls the handler of hook h, whatever its predicate says.
Invoke(h) ==
    /\ pending = NoEvent
    /\ \E a \in HandlerArgs(h) : Call("handler", h, a, Handler(h, a))
    /\ UNCHANGED <<nPostPrompt, pending>>

\* The host calls the capability predicate of hook h.
Ask(h) ==
    /\ pending = NoEvent
    /\ \E a \in PredicateArgs(h) :
           Call("predicate", PredicateName(h), a, Returns(Bool(CanHandle(h, a))))
    /\ UNCHANGED <<nPostPrompt, pending>>

OnResponse == Invoke("on_response")
OnPlanning == Invoke("on_planning")
PostPlanning == Invoke("post_planning")
PreInstruction == Invoke("pre_instruction")
OnInstruction == Invoke("on_instruction")
PostInstruction == Invoke("post_instruction")
PreCommand == Invoke("pre_command")
PostCommand == Invoke("post_command")
HandleChatCompletion == Invoke("handle_chat_completion")
HandleTextEmbedding == Invoke("handle_text_embedding")
UserInput == Invoke("user_input")
Report == Invoke("report")

PostPrompt ==
    /\ pending = NoEvent
    /\ nPostPrompt < MaxPostPrompt
    /\ \E a \in HandlerArgs("post_prompt") :
           Call("handler", "post_prompt", a, Handler("post_prompt", a))
    /\ nPostPrompt' = nPostPrompt + 1
    /\ UNCHANGED pending

CanHandleAny == \E h \in Hooks : Ask(h)

---------------------------------------------------------------------------
(* What the host and the process do besides calling the plugin.            *)

\* The process environment changes after the plugin was constructed.
SetEnv ==
    /\ pending = NoEvent
    /\ \E e \in Environments : e # environ /\ environ' = e
    /\ last' = Idle
    /\ UNCHANGED <<self, notionExports, hostRejects, prompts, nPostPrompt,
                   nHostCommands, pending>>

\* The host registers a command of its own on a prompt-builder.
HostAddCommand ==
    /\ pending = NoEvent
    /\ nHostCommands < MaxHostCommands
    /\ \E p \in PromptIds :
           prompts' = [prompts EXCEPT ![p].commands = Append(@, HostCommand)]
    /\ nHostCommands' = nHostCommands + 1
    /\ last' = Idle
    /\ UNCHANGED <<self, environ, notionExports, hostRejects, nPostPrompt, pending>>

\* Any host: every method may be called at any time, in any order.
Next ==
    \/ OnResponse \/ PostPrompt \/ OnPlanning \/ PostPlanning
    \/ PreInstruction \/ OnInstruction \/ PostInstruction
    \/ PreCommand \/ PostCommand \/ HandleChatCompletion
    \/ HandleTextEmbedding \/ UserInput \/ Report
    \/ CanHandleAny
    \/ SetEnv \/ HostAddCommand

Spec == Init /\ [][Next]_vars

---------------------------------------------------------------------------
(* A correctly behaving host: at a lifecycle event it asks the hook's      *)
(* capability predicate, and calls the handler next if and only if the     *)
(* answer was true.                                                        *)

HostReach ==
    /\ pending = NoEvent
    /\ \E h \in Hooks :
         /\ h = "post_prompt" => nPostPrompt < MaxPostPrompt
         /\ \E a \in PredicateArgs(h) :
              /\ Call("predicate", PredicateName(h), a,
                      Returns(Bool(CanHandle(h, a))))
              /\ pending' = [hook |-> h, can |-> CanHandle(h, a)]
    /\ UNCHANGED nPostPrompt

HostInvoke ==
    /\ pending # NoEvent
    /\ pending.can
    /\ \E a \in HandlerArgs(pending.hook) :
           Call("handler", pending.hook, a, Handler(pending.hook, a))
    /\ nPostPrompt' = IF pending.hook = "post_prompt"
                      THEN nPostPrompt + 1 ELSE nPostPrompt
    /\ pending' = NoEvent

HostSkip ==
    /\ pending # NoEvent
    /\ ~pending.can
    /\ pending' = NoEvent
    /\ last' = Idle
    /\ UNCHANGED <<self, environ, notionExports, hostRejects, prompts,
                   nPostPrompt, nHostCommands>>

NextHost == HostReach \/ HostInvoke \/ HostSkip \/ SetEnv \/ HostAddCommand

SpecHost == Init /\ [][NextHost]_vars /\ WF_vars(HostInvoke)

---------------------------------------------------------------------------
(* What the properties below speak of.                                     *)

\* The step is a call of post_prompt.
PostPromptStep ==
    /\ nPostPrompt' = nPostPrompt + 1
    /\ last'.kind = "handler"
    /\ last'.hook = "post_prompt"

\* The prompt-builder the call recorded in last' was given.
Target == last'.args[1].id

\* The registrations the step added at the end of the target's commands.
Added ==
    SubSeq(prompts'[Target].commands,
           Len(prompts[Target].commands) + 1, Len(prompts'[Target].commands))

ExpectedNames ==
    <<"notion_create_page", "notion_get_all_pages", "notion_append_page",
      "notion_retrieve_page", "notion_update_page_properties">>

ExpectedKeys ==
    << {"title", "summary", "tags", "content"}, {}, {"page_id", "content"},
       {"page_id"}, {"page_id", "title", "summary", "tags"} >>

ExpectedFunctions ==
    <<"create_page", "get_all_pages", "append_page", "retrieve_page",
      "update_page_properties">>

HandlersAvailable ==
    {ExpectedFunctions[i] : i \in 1..5} \subseteq notionExports

HostAccepts == \A i \in 1..5 : hostRejects # ExpectedNames[i]

PluginUnchanged == self' = self

EnvironmentUnchanged ==
    UNCHANGED <<environ, notionExports, hostRejects, nHostCommands>>

---------------------------------------------------------------------------
(* C1: when the handler functions can be imported and the host accepts     *)
(* every command, post_prompt(p), on any p in any prior state, appends     *)
(* exactly five registrations to p, with the five names in order and the   *)
(* argument-template key sets of the table, and returns p itself.          *)
C1_FiveRegistrations ==
    [][ (PostPromptStep /\ HandlersAvailable /\ HostAccepts) =>
          /\ Len(prompts'[Target].commands) = Len(prompts[Target].commands) + 5
          /\ \A i \in 1..5 :
               /\ Added[i].name = ExpectedNames[i]
               /\ DOMAIN Added[i].args = ExpectedKeys[i]
          /\ last'.raised = NoError
          /\ last'.ret = Ref(Target)
          /\ last'.ret = last'.args[1] ]_vars

\* post_prompt returned p2, on which it had been called before and on which
\* the host had registered a command of its own.
C1_Witness ==
    /\ last.kind = "handler" /\ last.hook = "post_prompt"
    /\ last.ret = Ref("p2")
    /\ Len(prompts["p2"].commands) = 11
    /\ prompts["p1"].commands = << >>

(* C2: post_prompt(p) leaves every registration p held before the call,   *)
(* every other part of p, every other prompt-builder and the plugin's own  *)
(* fields as they were, whether it returns or raises.                      *)
C2_Frame ==
    [][ PostPromptStep =>
          /\ Len(prompts'[Target].commands) >= Len(prompts[Target].commands)
          /\ SubSeq(prompts'[Target].commands, 1, Len(prompts[Target].commands))
                = prompts[Target].commands
          /\ prompts'[Target].constraints = prompts[Target].constraints
          /\ \A q \in PromptIds \ {Target} : prompts'[q] = prompts[q]
          /\ DOMAIN prompts' = DOMAIN prompts
          /\ PluginUnchanged
          /\ EnvironmentUnchanged ]_vars

\* post_prompt ran on p1 after the host's own command was registered there,
\* while p2 holds the registrations of an earlier call.
C2_Witness ==
    /\ last.kind = "handler" /\ last.hook = "post_prompt"
    /\ last.args = <<Ref("p1")>>
    /\ Len(prompts["p1"].commands) = 6
    /\ prompts["p1"].commands[1] = HostCommand
    /\ Len(prompts["p2"].commands) = 5

(* C3: for each of the eleven hooks other than post_prompt and user_input, *)
(* the capability predicate returns False whatever its arguments and the   *)
(* state, and the handler returns None and changes nothing: not the        *)
(* plugin, not the prompt-builders (its arguments), not the environment.   *)
C3_Predicates ==
    {"can_handle_on_response", "can_handle_on_planning",
     "can_handle_post_planning", "can_handle_pre_instruction",
     "can_handle_on_instruction", "can_handle_post_instruction",
     "can_handle_pre_command", "can_handle_post_command",
     "can_handle_chat_completion", "can_handle_text_embedding",
     "can_handle_report"}

C3_Handlers ==
    {"on_response", "on_planning", "post_planning", "pre_instruction",
     "on_instruction", "post_instruction", "pre_command", "post_command",
     "handle_chat_completion", "handle_text_embedding", "report"}

C4_UserInputEcho ==
    [][ (last'.kind = "handler" /\ last'.hook = "user_input") =>
          /\ last'.ret = last'.args[1]
          /\ last'.raised = NoError
          /\ PluginUnchanged
          /\ prompts' = prompts ]_vars

\* user_input("") returned "" after post_prompt calls and a change of the
\* environment.
C4_Witness ==
    /\ last.kind = "handler" /\ last.hook = "user_input"
    /\ last.args = <<Str("")>> /\ last.ret = Str("")
    /\ nPostPrompt = 2
    /\ self.notion_token # os_getenv("NOTION_TOKEN")

(* C5, as stated: can_handle_user_input does not answer negatively: the    *)
(* plugin declares that it handles user input.                             *)
C5_AsStated ==
    (last.kind = "predicate" /\ last.hook = "can_handle_user_input")
        => last.ret # Bool(FALSE)

(* C5, amended: can_handle_user_input answers False for every input, like  *)
(* the predicates of the no-op hooks; the handler user_input, if the host  *)
(* calls it all the same, returns its input unchanged.                     *)
C5_UserInputDeclined ==
    /\ (last.kind = "predicate" /\ last.hook = "can_handle_user_input")
          => (last.ret = Bool(FALSE) /\ last.raised = NoError)
    /\ (last.kind = "handler" /\ last.hook = "user_input")
          => (last.ret = last.args[1] /\ last.raised = NoError)

\* can_handle_user_input("hello") was called.
C5_Witness ==
    /\ last.kind = "predicate" /\ last.hook = "can_handle_user_input"
    /\ last.args = <<Str("hello")>>
    /\ last.ret = Bool(FALSE)

(* C6: with a correctly behaving host, whenever the host reaches the       *)
(* post-prompt event the predicate answers True and post_prompt is         *)
(* invoked, and no handler of the eleven no-op hooks is ever invoked,      *)
(* whatever the order and number of lifecycle events.                      *)
C6_CorrectHost ==
    /\ [](pending.hook = "post_prompt" => pending.can)
    /\ [](pending.hook \in C3_Handlers => ~pending.can)
    /\ [](last.kind = "handler" => last.hook \notin C3_Handlers)
    /\ (pending.hook = "post_prompt")
          ~> (last.kind = "handler" /\ last.hook = "post_prompt")

\* The host reached the post-prompt event a second time, after other
\* events, and post_prompt was invoked.
C6_Witness ==
    /\ last.kind = "handler" /\ last.hook = "post_prompt"
    /\ pending = NoEvent
    /\ nPostPrompt = 2
    /\ nHostCommands = 1

(* C7, as stated: with a handler function unavailable (and a host that     *)
(* accepts every command) post_prompt still completes its registrations    *)
(* and returns the prompt.                                                 *)
C7_AsStated ==
    (/\ last.kind = "handler" /\ last.hook = "post_prompt"
     /\ ~HandlersAvailable /\ HostAccepts)
        => /\ last.raised = NoError
           /\ last.ret = last.args[1]
           /\ Len(prompts[last.args[1].id].commands) >= 5

(* C7, amended: with a handler function unavailable, post_prompt raises    *)
(* ImportError at its import statement: it makes no registration and does  *)
(* not return the prompt; the failure appears at the post_prompt call.     *)
C7_ImportFailsFirst ==
    [][ (PostPromptStep /\ ~HandlersAvailable) =>
          /\ last'.raised = "ImportError"
          /\ last'.ret = NoReturn
          /\ prompts' = prompts
          /\ PluginUnchanged ]_vars

\* post_prompt was called while .notion lacked update_page_properties.
C7_Witness ==
    /\ last.kind = "handler" /\ last.hook = "post_prompt"
    /\ notionExports =
         {"append_page", "create_page", "get_all_pages", "retrieve_page"}
    /\ hostRejects = NoName
    /\ last.raised = "ImportError"

(* C8: if the host's add_command raises on the k-th registration, then     *)
(* post_prompt raises that same failure and returns nothing, the k-1       *)
(* registrations made before it stay on the prompt, and none follows.      *)
C8_HostFailurePropagates ==
    [][ \A k \in 1..5 :
          (PostPromptStep /\ HandlersAvailable /\ hostRejects = ExpectedNames[k]) =>
             /\ last'.raised = "HostError"
             /\ last'.ret = NoReturn
             /\ Len(Added) = k - 1
             /\ \A i \in 1..(k - 1) : Added[i].name = ExpectedNames[i]
             /\ SubSeq(prompts'[Target].commands, 1, Len(prompts[Target].commands))
                   = prompts[Target].commands ]_vars

\* The host refused notion_append_page, the third command, in two calls on
\* p1: the two commands before it were registered each time.
C8_Witness ==
    /\ last.kind = "handler" /\ last.hook = "post_prompt"
    /\ last.raised = "HostError"
    /\ hostRejects = "notion_append_page"
    /\ Len(prompts["p1"].commands) = 4
    /\ prompts["p1"].commands[4].name = "notion_get_all_pages"

(* C9: the value a call returns is a function of the method and its        *)
(* arguments (and, for post_prompt, of what the import and the host allow) *)
(* and not of the calls made before; and the plugin's fields (token,       *)
(* database id, client handle, name, version, description) never change    *)
(* after construction, even when the environment does.                     *)
C9_Result ==
    CASE last.kind = "predicate" -> Bool(last.hook = "can_handle_post_prompt")
      [] last.kind = "handler" /\ last.hook = "user_input" -> last.args[1]
      [] last.kind = "handler" /\ last.hook = "post_prompt" ->
             IF HandlersAvailable /\ HostAccepts THEN last.args[1] ELSE NoReturn
      [] last.kind = "handler" /\ last.hook \in C3_Handlers -> None
      [] OTHER -> NoReturn

C9_Stateless ==
    /\ [](last.ret = C9_Result)
    /\ [][PluginUnchanged]_vars
    /\ [](self.notion = [auth |-> self.notion_token])

\* A handler ran after the environment changed and after earlier calls:
\* the plugin still holds the token read at construction.
C9_Witness ==
    /\ last.kind = "handler" /\ last.hook = "report"
    /\ self.notion_token = Str("secret_a")
    /\ environ = EmptyDict
    /\ nPostPrompt = 1

(* C10: post_prompt registers the five names in the fixed order, each      *)
(* bound to its own handler function; within one call no name is           *)
(* registered twice and no two names share a handler.                      *)
C10_OrderAndBinding ==
    [][ PostPromptStep =>
          /\ Len(Added) <= 5
          /\ \A i \in 1..Len(Added) :
               /\ Added[i].name = ExpectedNames[i]
               /\ Added[i].function = ExpectedFunctions[i]
          /\ \A i, j \in 1..Len(Added) :
               i # j => /\ Added[i].name # Added[j].name
                        /\ Added[i].function # Added[j].function ]_vars

\* A complete call: p1's commands end with notion_update_page_properties
\* bound to update_page_properties.
C10_Witness ==
    /\ last.kind = "handler" /\ last.hook = "post_prompt"
    /\ last.ret = Ref("p1")
    /\ Len(prompts["p1"].commands) = 5
    /\ prompts["p1"].commands[5].function = "update_page_properties"
    /\ prompts["p1"].commands[1].function = "create_page"

=============================================================================
